---- MODULE Spec2Model ----
(***************************************************************************)
(* Model of the ThermicCamara seven-segment reader and grid scan.         *)
(*                                                                         *)
(*   script.py          digit recognition pipeline and the heatmap scan    *)
(*   PixelToNumber.py   the earlier table with the other segment polarity  *)
(*   readCamaratest.py  the preview loop (same pipeline, no try/except)   *)
(*                                                                         *)
(* Floats are carried as integers: a reading r is stored as 10*r (tenths), *)
(* fractions of the calibration geometry as hundredths.  Strings are       *)
(* sequences of one-character strings.                                     *)
(***************************************************************************)
EXTENDS Integers, Sequences, FiniteSets, TLC

VARIABLES
    pc,               \* position of the running script / of the function call
    width, height,    \* script.py:170-171
    display,          \* the segment patterns the thermometer shows to the camera
    cap,              \* the cv2.VideoCapture handle: "none", "open", "failed", "released"
    temperature_data, \* script.py:207, [y -> [x -> tenths]]
    detected_values,  \* script.py:223
    userQuit,         \* script.py:233
    x, y,             \* loop variables of script.py:270,273
    frame_rgb,        \* the frame of the current poll (NoFrame when dropped)
    reading_float,    \* script.py:276 (and the result of read_digits_from_frame)
    pixel_list,       \* argument of GetBoolValues
    bool_list,        \* argument of ReturnSingleNumber / result of GetBoolValues
    digit,            \* result of ReturnSingleNumber
    releases,         \* history: number of cap.release() calls
    polls,            \* history: one record per cap.read()
    writes,           \* history: the cells assigned at script.py:277, in order
    quitAt,           \* history: number of writes done when userQuit was set, -1 if never
    interrupted,      \* history: a KeyboardInterrupt was raised in the try block
    startResult,      \* outcome of the last start request
    digit_box,        \* argument of extract_digit_pixels_fractional
    spc,              \* position of the servo script cervoController.py
    n, p,             \* cervoController.py:51-52
    row, col,         \* loop variables of cervoController.py:80,91
    current_h,        \* cervoController.py:83,87,98, scaled by HDen
    current_v,        \* cervoController.py:76,102, scaled by VDen
    step,             \* cervoController.py:84,88, scaled by HDen
    servo,            \* the angles last set on the two channels, scaled
    commands,         \* history: the set_servo_angle pairs of cervoController.py:93-94
    sweepInterrupted  \* history: KeyboardInterrupt in the servo script

SweepVars == <<spc, n, p, row, col, current_h, current_v, step, servo, commands,
               sweepInterrupted>>

vars == <<pc, width, height, display, cap, temperature_data, detected_values, userQuit,
          x, y, frame_rgb, reading_float, pixel_list, bool_list, digit,
          releases, polls, writes, quitAt, interrupted, startResult, digit_box,
          SweepVars>>

\* the servo script not started
SweepIdle ==
    /\ spc = "off" /\ n = 0 /\ p = 0 /\ row = 0 /\ col = 0
    /\ current_h = 0 /\ current_v = 0 /\ step = 0
    /\ servo = <<0, 0>> /\ commands = <<>> /\ sweepInterrupted = FALSE

(***************************************************************************)
(* Bounds of the model                                                     *)
(***************************************************************************)
MaxWidth == 3
MaxHeight == 2
MaxFrame == 3     \* extraction is tried on frames of 1..MaxFrame pixels a side
MaxLit == 1       \* non-table test patterns have at most MaxLit segments lit
Delta == 3        \* pixel components are taken within Delta of the threshold
FrameW == 640     \* webcam resolution of the frames
FrameH == 480

(***************************************************************************)
(* 7-segment digit parsing (script.py:13-62)                               *)
(***************************************************************************)
threshold == 150

Segs == 1..7      \* order A, B, C, D, E, F, G

\* a pattern given by the set of lit segment indices
Pat(S) == [i \in Segs |-> i \in S]

AllPatterns == { Pat(S) : S \in SUBSET Segs }

\* the table of PixelToNumber.py:3-14 (other polarity / segment order)
values_PixelToNumber ==
    ( Pat({1,2,3,5,6,7})   :> 0 ) @@
    ( Pat({3,6})           :> 1 ) @@
    ( Pat({1,3,4,5,7})     :> 2 ) @@
    ( Pat({1,3,4,6,7})     :> 3 ) @@
    ( Pat({2,3,4,6})       :> 4 ) @@
    ( Pat({1,2,4,6,7})     :> 5 ) @@
    ( Pat({1,2,4,5,6,7})   :> 6 ) @@
    ( Pat({1,3,6})         :> 7 ) @@
    ( Pat({1,2,3,4,5,6,7}) :> 8 ) @@
    ( Pat({1,2,3,4,6})     :> 9 )

\* script.py:16-27; T = lit, F = dark, written out as in the source
values ==
    ( <<TRUE,  TRUE,  TRUE,  TRUE,  TRUE,  TRUE,  FALSE>> :> 0 ) @@
    ( <<FALSE, TRUE,  TRUE,  FALSE, FALSE, FALSE, FALSE>> :> 1 ) @@
    ( <<TRUE,  TRUE,  FALSE, TRUE,  TRUE,  FALSE, TRUE >> :> 2 ) @@
    ( <<TRUE,  TRUE,  TRUE,  TRUE,  FALSE, FALSE, TRUE >> :> 3 ) @@
    ( <<FALSE, TRUE,  TRUE,  FALSE, FALSE, TRUE,  TRUE >> :> 4 ) @@
    ( <<TRUE,  FALSE, TRUE,  TRUE,  FALSE, TRUE,  TRUE >> :> 5 ) @@
    ( <<TRUE,  FALSE, TRUE,  TRUE,  TRUE,  TRUE,  TRUE >> :> 6 ) @@
    ( <<TRUE,  TRUE,  TRUE,  FALSE, FALSE, FALSE, FALSE>> :> 7 ) @@
    ( <<TRUE,  TRUE,  TRUE,  TRUE,  TRUE,  TRUE,  TRUE >> :> 8 ) @@
    ( <<TRUE,  TRUE,  TRUE,  TRUE,  FALSE, TRUE,  TRUE >> :> 9 )

\* avg_intensity > threshold with integer division (a Python 2 style slip)
ExceedsThreshold_floor(pixel) ==
    ((pixel[1] + pixel[2] + pixel[3]) \div 3) > threshold

\* script.py:33-34: sum(int(c) for c in pixel) / 3.0 > threshold.  The sum is
\* taken over Python ints (no uint8 wraparound); s / 3.0 > t is compared
\* exactly as s > 3 * t.
ExceedsThreshold(pixel) ==
    (pixel[1] + pixel[2] + pixel[3]) > 3 * threshold

\* script.py:29-37
GetBoolValues(pl) == [i \in 1..Len(pl) |-> ExceedsThreshold(pl[i])]

\* script.py:39-44: values.get(pattern, -1)
ReturnSingleNumber(bl) == IF bl \in DOMAIN values THEN values[bl] ELSE -1

\* str(digit) for a one-digit int, and the value of a digit character
DigitChars == <<"0", "1", "2", "3", "4", "5", "6", "7", "8", "9">>
Str(d) == <<DigitChars[d + 1]>>
IsDigitChar(c) == \E d \in 0..9 : DigitChars[d + 1] = c
CharVal(c) == CHOOSE d \in 0..9 : DigitChars[d + 1] = c

RECURSIVE IntVal(_)
\* value of a non-empty string of digit characters
IntVal(s) == IF Len(s) = 0 THEN 0
             ELSE 10 * IntVal(SubSeq(s, 1, Len(s) - 1)) + CharVal(s[Len(s)])

AllDigitChars(s) == \A i \in 1..Len(s) : IsDigitChar(s[i])

\* float(s) in tenths, for strings of digits with at most one fractional
\* digit; raised stands for ValueError
ParseFloat(s) ==
    LET dots == { i \in 1..Len(s) : s[i] = "." } IN
    IF dots = {} THEN
        IF Len(s) > 0 /\ AllDigitChars(s)
        THEN [raised |-> FALSE, val |-> 10 * IntVal(s)]
        ELSE [raised |-> TRUE, val |-> 0]
    ELSE
        LET i == CHOOSE k \in dots : TRUE
            ip == SubSeq(s, 1, i - 1)
            fp == SubSeq(s, i + 1, Len(s))
        IN IF Cardinality(dots) = 1 /\ AllDigitChars(ip) /\ AllDigitChars(fp)
              /\ Len(ip) + Len(fp) > 0 /\ Len(fp) <= 1
           THEN [raised |-> FALSE, val |-> 10 * IntVal(ip) + IntVal(fp)]
           ELSE [raised |-> TRUE, val |-> 0]

RECURSIVE Join(_)
\* "".join(digits)
Join(ss) == IF Len(ss) = 0 THEN <<>> ELSE Head(ss) \o Join(Tail(ss))

\* script.py:46-55: raises ValueError at the first unrecognized digit
GetNumber(numbers) ==
    LET ds == [i \in 1..Len(numbers) |-> ReturnSingleNumber(GetBoolValues(numbers[i]))]
    IN IF \E i \in 1..Len(numbers) : ds[i] = -1
       THEN [raised |-> TRUE, val |-> 0]
       ELSE ParseFloat(Join([i \in 1..Len(numbers) |-> Str(ds[i])]))

\* script.py:57-62
safe_get_number(numbers) ==
    LET r == GetNumber(numbers) IN IF r.raised THEN 0 ELSE r.val

(***************************************************************************)
(* Digit boxes and segment offsets (script.py:69-129)                      *)
(***************************************************************************)
\* script.py:69-73, (left, top, right, bottom) in hundredths
digit_boxes == << <<17, 44, 41, 96>>, <<37, 40, 62, 93>>, <<61, 38, 82, 93>> >>

\* script.py:77-85, (relX, relY) in hundredths, order A..G
segment_offsets == << <<50, 10>>, <<80, 30>>, <<80, 70>>, <<50, 90>>,
                      <<20, 70>>, <<20, 30>>, <<50, 50>> >>

\* int(frac * n) for a fraction given in hundredths (int truncates toward 0)
IntMul(frac, m) ==
    IF frac * m >= 0 THEN (frac * m) \div 100 ELSE -((-(frac * m)) \div 100)

White == <<255, 255, 255>>
Black == <<0, 0, 0>>

\* A frame is its size and the set of its bright pixels; frame_rgb[py, px]
PixelAt(frame, px, py) ==
    IF <<px, py>> \in frame.bright THEN White ELSE Black

\* script.py:101-116: the absolute pixel of one segment of one digit box
SegmentPoint(w, h, box, off) ==
    LET box_left   == IntMul(box[1], w)
        box_top    == IntMul(box[2], h)
        box_right  == IntMul(box[3], w)
        box_bottom == IntMul(box[4], h)
        box_width  == box_right - box_left
        box_height == box_bottom - box_top
    IN << box_left + IntMul(off[1], box_width),
          box_top  + IntMul(off[2], box_height) >>

\* the segment pixel read without the bounds test (indices wrap around)
extract_digit_pixels_fractional_wrap(frame, box, seg_offsets) ==
    [j \in 1..Len(seg_offsets) |->
        LET pt == SegmentPoint(frame.w, frame.h, box, seg_offsets[j]) IN
        PixelAt(frame, pt[1] % frame.w, pt[2] % frame.h)]

\* script.py:90-129 (the overlay is cosmetic and left out)
extract_digit_pixels_fractional(frame, box, seg_offsets) ==
    [j \in 1..Len(seg_offsets) |->
        LET pt == SegmentPoint(frame.w, frame.h, box, seg_offsets[j]) IN
        IF 0 <= pt[1] /\ pt[1] < frame.w /\ 0 <= pt[2] /\ pt[2] < frame.h
        THEN PixelAt(frame, pt[1], pt[2])
        ELSE Black]

RECURSIVE IntStr(_)
\* str(n) for n >= 0, as in an f-string field
IntStr(k) == IF k < 10 THEN Str(k) ELSE IntStr(k \div 10) \o Str(k % 10)

\* int(f) for a non-negative float carried in tenths
IntOfFloat(f) == f \div 10

\* script.py:151-154
RecognizedDigits(frame, boxes, seg_offsets) ==
    [i \in 1..Len(boxes) |->
        safe_get_number(<< extract_digit_pixels_fractional(frame, boxes[i], seg_offsets) >>)]

\* reading_str with the first two fields exchanged
ReadingStr_swapped(rd) ==
    IntStr(IntOfFloat(rd[2])) \o IntStr(IntOfFloat(rd[1])) \o <<".">> \o IntStr(IntOfFloat(rd[3]))

\* script.py:156
ReadingStr(rd) ==
    IntStr(IntOfFloat(rd[1])) \o IntStr(IntOfFloat(rd[2])) \o <<".">> \o IntStr(IntOfFloat(rd[3]))

\* script.py:131-162 (the reading; the combined overlay is cosmetic)
read_digits_from_frame(frame, boxes, seg_offsets) ==
    LET r == ParseFloat(ReadingStr(RecognizedDigits(frame, boxes, seg_offsets)))
    IN IF r.raised THEN 0 ELSE r.val

(***************************************************************************)
(* Test frames                                                             *)
(***************************************************************************)
NoFrame == [w |-> 0, h |-> 0, bright |-> {}]

\* the frame in which box i shows pattern ps[i]
FrameShowing(ps) ==
    [w |-> FrameW, h |-> FrameH,
     bright |-> { SegmentPoint(FrameW, FrameH, digit_boxes[i], segment_offsets[j]) :
                    <<i, j>> \in { q \in (1..3) \X Segs : ps[q[1]][q[2]] } }]

TestPatterns == DOMAIN values \cup { Pat(S) : S \in { T \in SUBSET Segs : Cardinality(T) <= MaxLit } }

\* the digit decoded from box i of a frame
DigitAt(frame, i) ==
    ReturnSingleNumber(GetBoolValues(
        extract_digit_pixels_fractional(frame, digit_boxes[i], segment_offsets)))

Levels == {0, 255} \cup ((threshold - Delta)..(threshold + Delta))

TestPixels == Levels \X Levels \X Levels

\* values of the variables a specification does not use
Idle ==
    /\ width = 0 /\ height = 0 /\ display = <<>> /\ cap = "none"
    /\ temperature_data = <<>> /\ detected_values = <<>>
    /\ userQuit = FALSE /\ x = 0 /\ y = 0
    /\ releases = 0 /\ polls = <<>> /\ writes = <<>> /\ quitAt = -1
    /\ interrupted = FALSE /\ startResult = "none"
    /\ SweepIdle

ScanVars == <<width, height, display, cap, temperature_data, detected_values, userQuit,
              x, y, releases, polls, writes, quitAt, interrupted, startResult>>

(***************************************************************************)
(* SpecClassify: GetBoolValues applied to one pixel                        *)
(***************************************************************************)
InitClassify ==
    /\ Idle /\ digit_box = <<>>
    /\ pc = "call"
    /\ pixel_list \in { <<px>> : px \in TestPixels }
    /\ bool_list = <<>>
    /\ digit = -1 /\ frame_rgb = NoFrame /\ reading_float = 0

CallGetBoolValues ==
    /\ pc = "call"
    /\ bool_list' = GetBoolValues(pixel_list)
    /\ pc' = "ret"
    /\ UNCHANGED <<ScanVars, SweepVars, digit_box, pixel_list, digit, frame_rgb, reading_float>>

NextClassify == CallGetBoolValues

SpecClassify == InitClassify /\ [][NextClassify]_vars

(***************************************************************************)
(* SpecDecode: ReturnSingleNumber applied to every 7-boolean pattern       *)
(***************************************************************************)
InitDecode ==
    /\ Idle /\ digit_box = <<>>
    /\ pc = "call"
    /\ pixel_list = <<>>
    /\ bool_list \in AllPatterns
    /\ digit = -1 /\ frame_rgb = NoFrame /\ reading_float = 0

CallReturnSingleNumber ==
    /\ pc = "call"
    /\ digit' = ReturnSingleNumber(bool_list)
    /\ pc' = "ret"
    /\ UNCHANGED <<ScanVars, SweepVars, digit_box, pixel_list, bool_list, frame_rgb, reading_float>>

NextDecode == CallReturnSingleNumber

SpecDecode == InitDecode /\ [][NextDecode]_vars

(***************************************************************************)
(* SpecRead: read_digits_from_frame applied to a frame                     *)
(***************************************************************************)
InitRead ==
    /\ Idle /\ digit_box = <<>>
    /\ pc = "call"
    /\ pixel_list = <<>> /\ bool_list = <<>> /\ digit = -1
    /\ frame_rgb \in { FrameShowing(ps) : ps \in [1..3 -> TestPatterns] }
    /\ reading_float = 0

CallReadDigits ==
    /\ pc = "call"
    /\ reading_float' = read_digits_from_frame(frame_rgb, digit_boxes, segment_offsets)
    /\ pc' = "ret"
    /\ UNCHANGED <<ScanVars, SweepVars, digit_box, pixel_list, bool_list, digit, frame_rgb>>

NextRead == CallReadDigits

SpecRead == InitRead /\ [][NextRead]_vars

(***************************************************************************)
(* Claims about the pure pipeline                                          *)
(***************************************************************************)
\* the seven-segment encodings, by segment letter (A=1 .. G=7)
Encoding(d) ==
    CASE d = 0 -> {1,2,3,4,5,6}
      [] d = 1 -> {2,3}
      [] d = 2 -> {1,2,4,5,7}
      [] d = 3 -> {1,2,3,4,7}
      [] d = 4 -> {2,3,6,7}
      [] d = 5 -> {1,3,4,6,7}
      [] d = 6 -> {1,3,4,5,6,7}
      [] d = 7 -> {1,2,3}
      [] d = 8 -> {1,2,3,4,5,6,7}
      [] d = 9 -> {1,2,3,4,6,7}

Lit(bl) == { i \in Segs : bl[i] }

\* C8: over all 128 patterns ReturnSingleNumber returns d exactly when the
\* pattern is the seven-segment encoding of d, and -1 for the other patterns
C8_DecodeTable ==
    pc = "ret" =>
        /\ digit \in (0..9) \cup {-1}
        /\ \A d \in 0..9 : (digit = d) <=> (Lit(bool_list) = Encoding(d))
        /\ (digit = -1) <=> (\A d \in 0..9 : Lit(bool_list) # Encoding(d))

C8_Witness ==
    /\ pc = "ret" /\ Lit(bool_list) = {2,3,6,7} /\ digit = 4

C8_WitnessUnrecognized ==
    /\ pc = "ret" /\ Lit(bool_list) = {1} /\ digit = -1

\* C9: a pixel is classified on exactly when r+g+b > 450, the sum taken
\* without 8-bit wraparound
C9_Classify ==
    pc = "ret" =>
        LET px == pixel_list[1] IN
        /\ Len(bool_list) = 1
        /\ bool_list[1] <=> (px[1] + px[2] + px[3] > 450)
        /\ (px = <<150, 150, 150>> => ~bool_list[1])
        /\ (px = <<151, 151, 151>> => bool_list[1])
        /\ (px = White => bool_list[1])

C9_Witness ==
    /\ pc = "ret" /\ pixel_list = << <<150, 150, 151>> >> /\ bool_list = <<TRUE>>

\* C1 (as claimed): if any of the three boxes decodes to no digit the reading
\* is the fallback 0.0
C1_AnyUnrecognizedGivesFallback ==
    (pc = "ret" /\ \E i \in 1..3 : DigitAt(frame_rgb, i) = -1) => reading_float = 0

\* C10: with all three digits recognized the reading is 10*d1 + d2 + d3/10
C10_Reading ==
    (pc = "ret" /\ \A i \in 1..3 : DigitAt(frame_rgb, i) \in 0..9) =>
        reading_float = 100 * DigitAt(frame_rgb, 1) + 10 * DigitAt(frame_rgb, 2)
                        + DigitAt(frame_rgb, 3)

C10_Witness ==
    /\ pc = "ret"
    /\ frame_rgb = FrameShowing(<<Pat(Encoding(2)), Pat(Encoding(0)), Pat(Encoding(4))>>)
    /\ reading_float = 204

(***************************************************************************)
(* Spec: the heatmap scan of script.py main()                              *)
(***************************************************************************)
\* what the thermometer shows during a scan: 20.4, or the same with the
\* first digit dark
ScanDisplays ==
    { <<Pat(Encoding(2)), Pat(Encoding(0)), Pat(Encoding(4))>>,
      <<Pat({}), Pat(Encoding(0)), Pat(Encoding(4))>> }

\* the positions inside the try block of script.py:269-300
LoopPcs == {"for_y", "for_x", "update_ui", "cap_read", "write", "after_write"}

Running == pc \in LoopPcs

Init ==
    /\ pc = "main"
    /\ width = 0 /\ height = 0 /\ display = <<>> /\ cap = "none"
    /\ temperature_data = <<>> /\ detected_values = <<>>
    /\ userQuit = FALSE /\ x = 0 /\ y = 0
    /\ frame_rgb = NoFrame /\ reading_float = 0
    /\ pixel_list = <<>> /\ bool_list = <<>> /\ digit = -1
    /\ releases = 0 /\ polls = <<>> /\ writes = <<>> /\ quitAt = -1
    /\ interrupted = FALSE /\ startResult = "none"
    /\ SweepIdle /\ digit_box = <<>>

PipeVars == <<pixel_list, bool_list, digit>>

\* main() entered without the cap.isOpened() check
Main_Start_unchecked ==
    /\ pc = "main"
    /\ \E w \in 1..MaxWidth, h \in 1..MaxHeight, opened \in BOOLEAN, d \in ScanDisplays :
        /\ width' = w /\ height' = h /\ display' = d
        /\ cap' = IF opened THEN "open" ELSE "failed"
        /\ temperature_data' = [r \in 0..(h - 1) |-> [c \in 0..(w - 1) |-> 0]]
        /\ startResult' = "started"
        /\ y' = 0
        /\ pc' = "for_y"
    /\ UNCHANGED <<detected_values, userQuit, x, frame_rgb, reading_float, PipeVars, SweepVars, digit_box,
                   releases, polls, writes, quitAt, interrupted>>

\* the grid allocated as np.zeros((width, height))
Main_Start_transposed ==
    /\ pc = "main"
    /\ \E w \in 1..MaxWidth, h \in 1..MaxHeight, opened \in BOOLEAN, d \in ScanDisplays :
        /\ width' = w /\ height' = h /\ display' = d
        /\ IF ~opened
           THEN /\ cap' = "failed"
                /\ startResult' = "CameraUnavailable"
                /\ pc' = "returned"
                /\ UNCHANGED <<temperature_data, y>>
           ELSE /\ cap' = "open"
                /\ temperature_data' = [r \in 0..(w - 1) |-> [c \in 0..(h - 1) |-> 0]]
                /\ startResult' = "started"
                /\ y' = 0
                /\ pc' = "for_y"
    /\ UNCHANGED <<detected_values, userQuit, x, frame_rgb, reading_float, PipeVars, SweepVars, digit_box,
                   releases, polls, writes, quitAt, interrupted>>

\* script.py:168-233: grid size, camera open, grid and UI set-up
Main_Start ==
    /\ pc = "main"
    /\ \E w \in 1..MaxWidth, h \in 1..MaxHeight, opened \in BOOLEAN, d \in ScanDisplays :
        /\ width' = w /\ height' = h /\ display' = d
        /\ IF ~opened
           THEN /\ cap' = "failed"
                /\ startResult' = "CameraUnavailable"
                /\ pc' = "returned"
                /\ UNCHANGED <<temperature_data, y>>
           ELSE /\ cap' = "open"
                /\ temperature_data' = [r \in 0..(h - 1) |-> [c \in 0..(w - 1) |-> 0]]
                /\ startResult' = "started"
                /\ y' = 0
                /\ pc' = "for_y"
    /\ UNCHANGED <<detected_values, userQuit, x, frame_rgb, reading_float, PipeVars, SweepVars, digit_box,
                   releases, polls, writes, quitAt, interrupted>>

\* script.py:270-272: next row, or leave the loop
ForY ==
    /\ pc = "for_y"
    /\ IF y >= height \/ userQuit
       THEN pc' = "release" /\ x' = x
       ELSE pc' = "for_x" /\ x' = 0
    /\ UNCHANGED <<width, height, display, cap, temperature_data, detected_values, userQuit, y,
                   frame_rgb, reading_float, PipeVars, SweepVars, digit_box, releases, polls, writes, quitAt,
                   interrupted, startResult>>

\* script.py:273-275: next column, or leave the row
ForX ==
    /\ pc = "for_x"
    /\ IF x >= width \/ userQuit
       THEN pc' = "for_y" /\ y' = y + 1
       ELSE pc' = "update_ui" /\ y' = y
    /\ UNCHANGED <<width, height, display, cap, temperature_data, detected_values, userQuit, x,
                   frame_rgb, reading_float, PipeVars, SweepVars, digit_box, releases, polls, writes, quitAt,
                   interrupted, startResult>>

\* a key press that leaves update_ui at once, abandoning the cell
UpdateUI_WaitButton_abort ==
    /\ pc = "update_ui"
    /\ \E pressed \in BOOLEAN :
        /\ userQuit' = (userQuit \/ pressed)
        /\ quitAt' = IF pressed /\ ~userQuit THEN Len(writes) ELSE quitAt
        /\ IF pressed THEN pc' = "for_y" /\ y' = y + 1
                      ELSE pc' = "cap_read" /\ y' = y
    /\ UNCHANGED <<width, height, display, cap, temperature_data, detected_values, x,
                   frame_rgb, reading_float, PipeVars, SweepVars, digit_box, releases, polls, writes,
                   interrupted, startResult>>

\* script.py:236-238: plt.waitforbuttonpress(0.01) registers a stop request
UpdateUI_WaitButton ==
    /\ pc = "update_ui"
    /\ \E pressed \in BOOLEAN :
        /\ userQuit' = (userQuit \/ pressed)
        /\ quitAt' = IF pressed /\ ~userQuit THEN Len(writes) ELSE quitAt
    /\ pc' = "cap_read"
    /\ UNCHANGED <<width, height, display, cap, temperature_data, detected_values, x, y,
                   frame_rgb, reading_float, PipeVars, SweepVars, digit_box, releases, polls, writes,
                   interrupted, startResult>>

\* a dropped frame polled again for the same cell (readCamaratest.py:161-164)
UpdateUI_Read_retry ==
    /\ pc = "cap_read"
    /\ \E ret \in (IF cap = "open" THEN BOOLEAN ELSE {FALSE}) :
        IF ~ret
        THEN /\ frame_rgb' = NoFrame
             /\ polls' = Append(polls, [cell |-> <<x, y>>, ok |-> FALSE])
             /\ pc' = "update_ui"
             /\ UNCHANGED <<reading_float, detected_values>>
        ELSE LET f == FrameShowing(display) IN
             /\ frame_rgb' = f
             /\ reading_float' = read_digits_from_frame(f, digit_boxes, segment_offsets)
             /\ detected_values' = Append(detected_values, reading_float')
             /\ polls' = Append(polls, [cell |-> <<x, y>>, ok |-> TRUE])
             /\ pc' = "write"
    /\ UNCHANGED <<width, height, display, cap, temperature_data, userQuit, x, y, PipeVars, SweepVars, digit_box,
                   releases, writes, quitAt, interrupted, startResult>>

\* a dropped frame that propagates as an error and ends main() in the loop
UpdateUI_Read_abort ==
    /\ pc = "cap_read"
    /\ \E ret \in (IF cap = "open" THEN BOOLEAN ELSE {FALSE}) :
        IF ~ret
        THEN /\ frame_rgb' = NoFrame
             /\ polls' = Append(polls, [cell |-> <<x, y>>, ok |-> FALSE])
             /\ pc' = "aborted"
             /\ UNCHANGED <<reading_float, detected_values>>
        ELSE LET f == FrameShowing(display) IN
             /\ frame_rgb' = f
             /\ reading_float' = read_digits_from_frame(f, digit_boxes, segment_offsets)
             /\ detected_values' = Append(detected_values, reading_float')
             /\ polls' = Append(polls, [cell |-> <<x, y>>, ok |-> TRUE])
             /\ pc' = "write"
    /\ UNCHANGED <<width, height, display, cap, temperature_data, userQuit, x, y, PipeVars, SweepVars, digit_box,
                   releases, writes, quitAt, interrupted, startResult>>

\* a dropped frame that returns 0.0 without recording it in detected_values
UpdateUI_Read_norecord ==
    /\ pc = "cap_read"
    /\ \E ret \in (IF cap = "open" THEN BOOLEAN ELSE {FALSE}) :
        IF ~ret
        THEN /\ frame_rgb' = NoFrame
             /\ reading_float' = 0
             /\ polls' = Append(polls, [cell |-> <<x, y>>, ok |-> FALSE])
             /\ UNCHANGED detected_values
        ELSE LET f == FrameShowing(display) IN
             /\ frame_rgb' = f
             /\ reading_float' = read_digits_from_frame(f, digit_boxes, segment_offsets)
             /\ detected_values' = Append(detected_values, reading_float')
             /\ polls' = Append(polls, [cell |-> <<x, y>>, ok |-> TRUE])
    /\ pc' = "write"
    /\ UNCHANGED <<width, height, display, cap, temperature_data, userQuit, x, y, PipeVars, SweepVars, digit_box,
                   releases, writes, quitAt, interrupted, startResult>>

\* script.py:240-265: cap.read(), then either the dropped-frame return or the
\* digit pipeline; the value returned is left in reading_float
UpdateUI_Read ==
    /\ pc = "cap_read"
    /\ \E ret \in (IF cap = "open" THEN BOOLEAN ELSE {FALSE}) :
        IF ~ret
        THEN /\ frame_rgb' = NoFrame
             /\ reading_float' = 0
             /\ detected_values' = Append(detected_values, 0)
             /\ polls' = Append(polls, [cell |-> <<x, y>>, ok |-> FALSE])
        ELSE LET f == FrameShowing(display) IN
             /\ frame_rgb' = f
             /\ reading_float' = read_digits_from_frame(f, digit_boxes, segment_offsets)
             /\ detected_values' = Append(detected_values, reading_float')
             /\ polls' = Append(polls, [cell |-> <<x, y>>, ok |-> TRUE])
    /\ pc' = "write"
    /\ UNCHANGED <<width, height, display, cap, temperature_data, userQuit, x, y, PipeVars, SweepVars, digit_box,
                   releases, writes, quitAt, interrupted, startResult>>

\* script.py:276-277: temperature_data[y, x] = reading_float
WriteCell ==
    /\ pc = "write"
    /\ temperature_data' = [temperature_data EXCEPT ![y][x] = reading_float]
    /\ writes' = Append(writes, <<x, y>>)
    /\ pc' = "after_write"
    /\ UNCHANGED <<width, height, display, cap, detected_values, userQuit, x, y, frame_rgb,
                   reading_float, PipeVars, SweepVars, digit_box, releases, polls, quitAt, interrupted,
                   startResult>>

\* script.py:279-300: colour limits (cosmetic), the stop check, the delay
AfterWrite ==
    /\ pc = "after_write"
    /\ IF userQuit
       THEN pc' = "for_y" /\ y' = y + 1 /\ x' = x
       ELSE pc' = "for_x" /\ x' = x + 1 /\ y' = y
    /\ UNCHANGED <<width, height, display, cap, temperature_data, detected_values, userQuit,
                   frame_rgb, reading_float, PipeVars, SweepVars, digit_box, releases, polls, writes, quitAt,
                   interrupted, startResult>>

\* a KeyboardInterrupt handler that leaves main() without releasing
KeyboardInterrupt_return ==
    /\ pc \in LoopPcs
    /\ interrupted' = TRUE
    /\ pc' = "done"
    /\ UNCHANGED <<width, height, display, cap, temperature_data, detected_values, userQuit, x, y,
                   frame_rgb, reading_float, PipeVars, SweepVars, digit_box, releases, polls, writes, quitAt,
                   startResult>>

\* script.py:301-302: Ctrl-C anywhere inside the try block
KeyboardInterrupt ==
    /\ pc \in LoopPcs
    /\ interrupted' = TRUE
    /\ pc' = "release"
    /\ UNCHANGED <<width, height, display, cap, temperature_data, detected_values, userQuit, x, y,
                   frame_rgb, reading_float, PipeVars, SweepVars, digit_box, releases, polls, writes, quitAt,
                   startResult>>

\* script.py:304-306: cap.release(), plt.close('all')
Release ==
    /\ pc = "release"
    /\ cap' = "released"
    /\ releases' = releases + 1
    /\ pc' = "done"
    /\ UNCHANGED <<width, height, display, temperature_data, detected_values, userQuit,
                   x, y, frame_rgb, reading_float, PipeVars, SweepVars, digit_box, polls, writes, quitAt,
                   interrupted, startResult>>

\* a second start that re-allocates the grid of the running scan
StartWhileRunning_restart ==
    /\ Running
    /\ startResult = "started"
    /\ startResult' = "AlreadyRunning"
    /\ temperature_data' = [r \in 0..(height - 1) |-> [c \in 0..(width - 1) |-> 0]]
    /\ UNCHANGED <<pc, width, height, display, cap, detected_values, userQuit, x, y,
                   frame_rgb, reading_float, PipeVars, SweepVars, digit_box, releases, polls, writes, quitAt,
                   interrupted>>

\* ScanSession.start while Running: rejected with AlreadyRunning
StartWhileRunning ==
    /\ Running
    /\ startResult = "started"
    /\ startResult' = "AlreadyRunning"
    /\ UNCHANGED <<pc, width, height, display, cap, temperature_data, detected_values, userQuit,
                   x, y, frame_rgb, reading_float, PipeVars, SweepVars, digit_box, releases, polls, writes,
                   quitAt, interrupted>>

Next ==
    \/ Main_Start
    \/ ForY
    \/ ForX
    \/ UpdateUI_WaitButton
    \/ UpdateUI_Read
    \/ WriteCell
    \/ AfterWrite
    \/ KeyboardInterrupt
    \/ Release
    \/ StartWhileRunning

Spec == Init /\ [][Next]_vars

(***************************************************************************)
(* Claims about the scan                                                   *)
(***************************************************************************)
Range(seq) == { seq[i] : i \in 1..Len(seq) }

Cells == (0..(width - 1)) \X (0..(height - 1))

\* the cell after c in the order of the two for loops
NextCell(c) == IF c[1] + 1 < width THEN <<c[1] + 1, c[2]>> ELSE <<0, c[2] + 1>>

\* snake order: ascending columns on even rows, descending on odd rows
SnakeOrder(w, h) ==
    [k \in 1..(w * h) |->
        LET r == (k - 1) \div w
            i   == (k - 1) % w
        IN << IF r % 2 = 0 THEN i ELSE w - 1 - i, r >>]

Completed == pc = "done" /\ ~interrupted /\ ~userQuit

\* C2 (as claimed): a scan that runs to completion writes the grid cells in
\* snake order
C2_SnakeOrderWrites ==
    Completed => writes = SnakeOrder(width, height)

\* C3 (as claimed): a poll whose frame acquisition failed does not write its
\* cell, and the next poll is again for the same cell
C3_FailedPollDoesNotAdvance ==
    /\ \A i \in 1..(Len(polls) - 1) :
          ~polls[i].ok => polls[i + 1].cell = polls[i].cell
    /\ \A c \in Range(writes) :
          \E i \in 1..Len(polls) : polls[i].cell = c /\ polls[i].ok

\* C3 (amended): a poll whose frame acquisition failed skips the pipeline and
\* yields the fallback 0.0, which is assigned to its cell (whose stored value
\* 0.0 is thereby unchanged), and the scan advances to the following cell
C3_FailedPollWritesFallbackAndAdvances ==
    \A i \in 1..Len(polls) :
        ~polls[i].ok =>
            LET c == polls[i].cell IN
            /\ (i = Len(polls) /\ pc = "write") =>
                   /\ frame_rgb = NoFrame /\ reading_float = 0
                   /\ c = <<x, y>> /\ temperature_data[y][x] = 0
            /\ i <= Len(writes) =>
                   /\ writes[i] = c
                   /\ temperature_data[c[2]][c[1]] = 0
            /\ i < Len(polls) => polls[i + 1].cell = NextCell(c)

C3_Witness ==
    \E i \in 1..(Len(polls) - 1) :
        /\ ~polls[i].ok
        /\ i <= Len(writes) /\ writes[i] = polls[i].cell
        /\ polls[i + 1].cell = NextCell(polls[i].cell)
        /\ polls[i + 1].cell # polls[i].cell

\* C4: once a stop request is registered, the cell being polled is still
\* decoded (or given the dropped-frame value) and written, no later cell is
\* polled or written, and the unvisited cells keep their value
C4_StopAtCellBoundary ==
    quitAt >= 0 =>
        /\ Len(polls) <= quitAt + 1
        /\ Len(writes) <= quitAt + 1
        /\ (pc = "done" /\ ~interrupted) =>
               /\ Len(polls) = quitAt + 1
               /\ Len(writes) = quitAt + 1
               /\ writes[quitAt + 1] = polls[quitAt + 1].cell
               /\ LET c == writes[quitAt + 1] IN
                      temperature_data[c[2]][c[1]] = reading_float
               /\ reading_float =
                      IF polls[quitAt + 1].ok
                      THEN read_digits_from_frame(frame_rgb, digit_boxes, segment_offsets)
                      ELSE 0
        /\ \A c \in Cells \ Range(writes) : temperature_data[c[2]][c[1]] = 0

C4_Witness ==
    /\ pc = "done" /\ ~interrupted /\ userQuit
    /\ quitAt = 1 /\ Len(writes) = 2 /\ width * height > 2
    /\ polls[2].ok /\ temperature_data[writes[2][2]][writes[2][1]] = 204

\* C5: on every exit path of a scan that opened the camera the handle is
\* released exactly once, and after the exit nothing is read or written
C5_ReleasedOnceOnExit ==
    /\ releases <= 1
    /\ Running => (releases = 0 /\ cap = "open")
    /\ pc = "done" =>
           /\ releases = 1 /\ cap = "released"
           /\ ~Running
           /\ ~ENABLED (UpdateUI_Read \/ WriteCell)

C5_Witness ==
    /\ pc = "done" /\ interrupted /\ releases = 1 /\ cap = "released"
    /\ Len(polls) > Len(writes)

\* C6: if the camera cannot be opened the scan loop is never entered, no
\* frame is read and no grid cell is written
C6_CameraUnavailableFailsFast ==
    cap = "failed" =>
        /\ pc = "returned" /\ ~Running
        /\ startResult = "CameraUnavailable"
        /\ polls = <<>> /\ writes = <<>> /\ detected_values = <<>>
        /\ temperature_data = <<>>
        /\ ~ENABLED Next

C6_Witness ==
    cap = "failed" /\ pc = "returned" /\ startResult = "CameraUnavailable" /\ width > 0

\* C7: a start requested while a scan is Running is rejected with
\* AlreadyRunning; it changes no state of the running scan and leaves its
\* grid untouched
C7_StartWhileRunningRejected ==
    [][(Running /\ startResult # "AlreadyRunning" /\ startResult' = "AlreadyRunning") =>
          /\ temperature_data' = temperature_data
          /\ UNCHANGED <<pc, width, height, display, cap, detected_values, userQuit, x, y,
                         frame_rgb, reading_float, releases, polls, writes>>]_vars

C7_Witness ==
    /\ startResult = "AlreadyRunning" /\ Running
    /\ \E c \in Range(writes) : temperature_data[c[2]][c[1]] = 204

(***************************************************************************)
(* SpecLive: the scan left to run (no Ctrl-C, no second start); main() is  *)
(* a sequential program that keeps executing, hence weak fairness          *)
(***************************************************************************)
NextLive ==
    \/ Main_Start
    \/ ForY
    \/ ForX
    \/ UpdateUI_WaitButton
    \/ UpdateUI_Read
    \/ WriteCell
    \/ AfterWrite
    \/ Release

SpecLive == Init /\ [][NextLive]_vars /\ WF_vars(NextLive)

C12_GridWrittenOnce ==
    cap \in {"open", "released"} =>
        /\ DOMAIN temperature_data = 0..(height - 1)
        /\ \A r \in 0..(height - 1) : DOMAIN temperature_data[r] = 0..(width - 1)
        /\ Range(writes) \subseteq Cells
        /\ \A i, j \in 1..Len(writes) : writes[i] = writes[j] => i = j
        /\ \A c \in Cells \ Range(writes) : temperature_data[c[2]][c[1]] = 0
        /\ Completed => (Range(writes) = Cells /\ Len(writes) = width * height)

C12_Witness ==
    /\ Completed /\ width = 3 /\ height = 2
    /\ Len(writes) = 6 /\ Range(writes) = Cells
    /\ \A c \in Cells : temperature_data[c[2]][c[1]] = 204

\* the cell boundaries: between the write of one cell and the poll of the next
AtCellBoundary ==
    \/ pc \in {"for_y", "for_x", "after_write"}
    \/ pc \in {"release", "done"} /\ ~interrupted

Last(seq) == seq[Len(seq)]

\* C17: at every cell boundary the number of recorded readings equals the
\* number of cells written and the latest recorded reading is the value most
\* recently written, also after a dropped frame
C17_RecordedMatchesWritten ==
    AtCellBoundary =>
        /\ Len(detected_values) = Len(writes)
        /\ Len(writes) > 0 =>
               Last(detected_values) = temperature_data[Last(writes)[2]][Last(writes)[1]]

C17_Witness ==
    /\ pc = "after_write" /\ Len(writes) = 2 /\ Len(detected_values) = 2
    /\ ~polls[2].ok /\ polls[1].ok
    /\ Last(detected_values) = 0 /\ detected_values[1] = 204

(***************************************************************************)
(* SpecExtract: extract_digit_pixels_fractional applied to an all-white    *)
(* frame and to digit boxes that reach outside the frame                   *)
(***************************************************************************)
\* box coordinates in hundredths, inside and outside [0, 1]
BoxFracs == {-50, 0, 50, 100, 150}

WhiteFrame(w, h) == [w |-> w, h |-> h, bright |-> (0..(w - 1)) \X (0..(h - 1))]

InitExtract ==
    /\ Idle
    /\ pc = "call"
    /\ frame_rgb \in { WhiteFrame(w, h) : w \in 1..MaxFrame, h \in 1..MaxFrame }
    /\ digit_box \in BoxFracs \X BoxFracs \X BoxFracs \X BoxFracs
    /\ pixel_list = <<>> /\ bool_list = <<>>
    /\ digit = -1 /\ reading_float = 0

CallExtractDigitPixels ==
    /\ pc = "call"
    /\ pixel_list' = extract_digit_pixels_fractional(frame_rgb, digit_box, segment_offsets)
    /\ bool_list' = GetBoolValues(pixel_list')
    /\ pc' = "ret"
    /\ UNCHANGED <<ScanVars, SweepVars, digit_box, digit, frame_rgb, reading_float>>

NextExtract == CallExtractDigitPixels

SpecExtract == InitExtract /\ [][NextExtract]_vars

\* the absolute pixel of segment j lies outside [0,w) x [0,h)
OutsideFrame(j) ==
    LET pt == SegmentPoint(frame_rgb.w, frame_rgb.h, digit_box, segment_offsets[j])
    IN ~(0 <= pt[1] /\ pt[1] < frame_rgb.w /\ 0 <= pt[2] /\ pt[2] < frame_rgb.h)

\* C13: a segment whose absolute pixel lies outside the frame yields the
\* colour (0,0,0), which classifies as off; the list always has 7 entries,
\* and a segment inside the frame yields the frame's pixel
C13_OutOfBoundsIsBlack ==
    pc = "ret" =>
        /\ Len(pixel_list) = 7 /\ Len(bool_list) = 7
        /\ \A j \in Segs :
              /\ OutsideFrame(j) => (pixel_list[j] = <<0, 0, 0>> /\ ~bool_list[j])
              /\ ~OutsideFrame(j) => (pixel_list[j] = White /\ bool_list[j])

C13_Witness ==
    /\ pc = "ret"
    /\ \E j \in Segs : OutsideFrame(j) /\ pixel_list[j] = <<0, 0, 0>>
    /\ \E j \in Segs : ~OutsideFrame(j) /\ pixel_list[j] = White

(***************************************************************************)
(* SpecSweep: the servo script cervoController.py                          *)
(*                                                                         *)
(* Angles are carried as integers: a horizontal angle a is stored as       *)
(* a * HDen and a vertical angle as a * VDen, so that the step sizes       *)
(* (H_MAX - H_MIN) / (n - 1) and (V_MAX - V_MIN) / (p - 1) are exact.      *)
(***************************************************************************)
H_MIN == 0
H_MAX == 180
V_MIN == 0
V_MAX == 90

HDen == IF n > 1 THEN n - 1 ELSE 1
VDen == IF p > 1 THEN p - 1 ELSE 1

\* cervoController.py:56-59, scaled by HDen
h_step == IF n > 1 THEN H_MAX - H_MIN ELSE 0

\* cervoController.py:61-64, scaled by VDen
v_step == IF p > 1 THEN V_MAX - V_MIN ELSE 0

SweepLoopPcs == {"row", "col", "next_row", "return_home"}

\* cervoController.py:34-44: the angle set on a channel (1 horizontal, 2 vertical)
set_servo_angle(sv, channel, angle) == [sv EXCEPT ![channel] = angle]

InitSweep ==
    /\ pc = "main"
    /\ width = 0 /\ height = 0 /\ display = <<>> /\ cap = "none"
    /\ temperature_data = <<>> /\ detected_values = <<>>
    /\ userQuit = FALSE /\ x = 0 /\ y = 0
    /\ frame_rgb = NoFrame /\ reading_float = 0
    /\ pixel_list = <<>> /\ bool_list = <<>> /\ digit = -1
    /\ releases = 0 /\ polls = <<>> /\ writes = <<>> /\ quitAt = -1
    /\ interrupted = FALSE /\ startResult = "none"
    /\ digit_box = <<>>
    /\ spc = "config" /\ n = 0 /\ p = 0 /\ row = 0 /\ col = 0
    /\ current_h = 0 /\ current_v = 0 /\ step = 0
    /\ servo = <<0, 0>> /\ commands = <<>> /\ sweepInterrupted = FALSE

CamVars == <<pc, width, height, display, cap, temperature_data, detected_values,
             userQuit, x, y, frame_rgb, reading_float, pixel_list, bool_list, digit,
             releases, polls, writes, quitAt, interrupted, startResult, digit_box>>

\* cervoController.py:51-76: grid resolution, step sizes, home position
Sweep_Config ==
    /\ spc = "config"
    /\ \E nn \in 1..MaxWidth, pp \in 1..MaxHeight :
        /\ n' = nn /\ p' = pp
        /\ servo' = << H_MIN * (IF nn > 1 THEN nn - 1 ELSE 1),
                       V_MIN * (IF pp > 1 THEN pp - 1 ELSE 1) >>
        /\ current_v' = V_MIN * (IF pp > 1 THEN pp - 1 ELSE 1)
    /\ row' = 0
    /\ spc' = "row"
    /\ UNCHANGED <<CamVars, col, current_h, step, commands, sweepInterrupted>>

\* every row swept left to right
Sweep_Row_raster ==
    /\ spc = "row"
    /\ IF row >= p
       THEN spc' = "return_home" /\ UNCHANGED <<current_h, step, col>>
       ELSE /\ current_h' = H_MIN * HDen /\ step' = h_step
            /\ col' = 0
            /\ spc' = "col"
    /\ UNCHANGED <<CamVars, n, p, row, current_v, servo, commands, sweepInterrupted>>

\* cervoController.py:80-88: the next row and its sweep direction
Sweep_Row ==
    /\ spc = "row"
    /\ IF row >= p
       THEN spc' = "return_home" /\ UNCHANGED <<current_h, step, col>>
       ELSE /\ IF row % 2 = 0
               THEN current_h' = H_MIN * HDen /\ step' = h_step
               ELSE current_h' = H_MAX * HDen /\ step' = -h_step
            /\ col' = 0
            /\ spc' = "col"
    /\ UNCHANGED <<CamVars, n, p, row, current_v, servo, commands, sweepInterrupted>>

\* cervoController.py:91-98: one step of the horizontal sweep
Sweep_Col ==
    /\ spc = "col"
    /\ IF col >= n
       THEN spc' = "next_row" /\ UNCHANGED <<servo, commands, current_h, col>>
       ELSE /\ servo' = set_servo_angle(set_servo_angle(servo, 1, current_h), 2, current_v)
            /\ commands' = Append(commands, [row |-> row, col |-> col,
                                             h |-> current_h, v |-> current_v])
            /\ current_h' = current_h + step
            /\ col' = col + 1
            /\ spc' = "col"
    /\ UNCHANGED <<CamVars, n, p, row, current_v, step, sweepInterrupted>>

\* cervoController.py:100-102: move down one step unless on the last row
Sweep_NextRow ==
    /\ spc = "next_row"
    /\ current_v' = IF row < p - 1 THEN current_v + v_step ELSE current_v
    /\ row' = row + 1
    /\ spc' = "row"
    /\ UNCHANGED <<CamVars, n, p, col, current_h, step, servo, commands, sweepInterrupted>>

\* cervoController.py:104-108: return to the home position
Sweep_ReturnHome ==
    /\ spc = "return_home"
    /\ servo' = set_servo_angle(set_servo_angle(servo, 1, H_MIN * HDen), 2, V_MIN * VDen)
    /\ spc' = "finally"
    /\ UNCHANGED <<CamVars, n, p, row, col, current_h, current_v, step, commands,
                   sweepInterrupted>>

\* cervoController.py:110-111: Ctrl-C inside the try block
Sweep_KeyboardInterrupt ==
    /\ spc \in SweepLoopPcs
    /\ sweepInterrupted' = TRUE
    /\ spc' = "finally"
    /\ UNCHANGED <<CamVars, n, p, row, col, current_h, current_v, step, servo, commands>>

\* cervoController.py:113-116: pca.deinit()
Sweep_Finally ==
    /\ spc = "finally"
    /\ spc' = "exit"
    /\ UNCHANGED <<CamVars, n, p, row, col, current_h, current_v, step, servo, commands,
                   sweepInterrupted>>

NextSweep ==
    \/ Sweep_Config
    \/ Sweep_Row
    \/ Sweep_Col
    \/ Sweep_NextRow
    \/ Sweep_ReturnHome
    \/ Sweep_KeyboardInterrupt
    \/ Sweep_Finally

SpecSweep == InitSweep /\ [][NextSweep]_vars

\* the column position of the k-th command of row r
ColumnPosition(r, k) == IF r % 2 = 0 THEN k ELSE n - 1 - k

C16_SingleColumnStaysInPlace ==
    n = 1 => \A i, j \in 1..Len(commands) : commands[i].h = commands[j].h

(***************************************************************************)
(* SpecRig: the camera script and the servo script running side by side,   *)
(* as on the rig (two programs, no message between them), on grids of at   *)
(* most 2 x 2                                                              *)
(***************************************************************************)
RigScan == Next /\ width' <= 2 /\ height' <= 2

RigSweep == NextSweep /\ n' <= 2 /\ p' <= 2

NextRig == RigScan \/ RigSweep

SpecRig == InitSweep /\ [][NextRig]_vars

\* the grid cell a servo command points at
CommandCell(c) == << ColumnPosition(c.row, c.col), c.row >>

\* C14 (as claimed): for every visited cell the actuator positioning request
\* comes first, then the frame acquisition, then the write; no cell is polled
\* or written without an earlier positioning request for that cell
C14_PositionedBeforeWrite ==
    /\ \A i \in 1..Len(writes) : i <= Len(polls) /\ polls[i].cell = writes[i]
    /\ \A i \in 1..Len(polls) :
          \E k \in 1..Len(commands) : CommandCell(commands[k]) = polls[i].cell

====
